---- MODULE Spec2Model ----
(***************************************************************************)
(* A model of dotslash's manifest parser, src/src/config.rs.               *)
(*                                                                         *)
(* A text is a sequence of symbols.  A symbol is a one-character string    *)
(* ("#", "{", "\n", ...) or, inside a JSON string literal only, a chunk    *)
(* that stands for several ordinary characters ("platforms").  Chunks are  *)
(* opaque: no comparison in the parser looks inside one.                   *)
(***************************************************************************)
EXTENDS Integers, Sequences, FiniteSets, TLC

VARIABLES
    input,      \* the &str handed to parse_file
    body,       \* how the text after the first line was written (history)
    pc,         \* position in parse_file / in the caller
    rest,       \* `data` after the shadowing at config.rs:98 (Option<&str>)
    value,      \* `value` at config.rs:108 (Option<Value>)
    result,     \* what parse_file returned (None until it returns)
    ran,        \* which stages were entered, in order
    written,    \* serde_jsonrc::to_value(&entry) of one entry of the result
    reread      \* ArtifactEntry::deserialize(&written)

vars == <<input, body, pc, rest, value, result, ran, written, reread>>

\* Option<T>
None == [some |-> FALSE]
Some(x) == [some |-> TRUE, v |-> x]

(***************************************************************************)
(* The header stage                                                        *)
(***************************************************************************)

REQUIRED_HEADER ==
    << "#", "!", "/", "u", "s", "r", "/", "b", "i", "n", "/", "e", "n", "v",
       " ", "d", "o", "t", "s", "l", "a", "s", "h" >>

CRLF == << "\r", "\n" >>
LF == << "\n" >>

\* str::strip_prefix: the remainder when `s` starts with `prefix`.
strip_prefix(s, prefix) ==
    IF Len(s) >= Len(prefix) /\ SubSeq(s, 1, Len(prefix)) = prefix
    THEN Some(SubSeq(s, Len(prefix) + 1, Len(s)))
    ELSE None

\* strip_terminator, were a lone carriage return a line terminator too.
strip_terminator_bare_cr(r) ==
    LET crlf == strip_prefix(r, CRLF)
        lf == strip_prefix(r, LF)
    IN  IF crlf.some THEN crlf
        ELSE IF lf.some THEN lf
        ELSE strip_prefix(r, <<"\r">>)

\* strip_terminator, were every leading line break trimmed
\* (trim_start_matches) once a terminator is found.
RECURSIVE TrimLineBreaks(_)
TrimLineBreaks(r) ==
    IF r # <<>> /\ r[1] \in {"\r", "\n"} THEN TrimLineBreaks(Tail(r)) ELSE r

strip_terminator_trim(r) ==
    IF strip_prefix(r, CRLF).some \/ strip_prefix(r, LF).some
    THEN Some(TrimLineBreaks(r))
    ELSE None

\* Option::or_else on the two strip_prefix calls of config.rs:101-102.
strip_terminator(r) ==
    LET crlf == strip_prefix(r, CRLF)
    IN  IF crlf.some THEN crlf ELSE strip_prefix(r, LF)

\* strip_header, were a text without the header line parsed as it is
\* (unwrap_or(data) for the with_context of config.rs:104).
strip_header_lenient(data) ==
    LET after == strip_prefix(data, REQUIRED_HEADER)
        line == IF after.some THEN strip_terminator(after.v) ELSE None
    IN  IF line.some THEN line ELSE Some(data)

\* Option::and_then on strip_prefix(REQUIRED_HEADER), config.rs:98-103.
strip_header(data) ==
    LET after == strip_prefix(data, REQUIRED_HEADER)
    IN  IF after.some THEN strip_terminator(after.v) ELSE None

\* The grave accent U+0060, which a TLA+ string cannot hold.
GraveAccent == "<U+0060>"

\* anyhow::format_err!: the fixed text, then REQUIRED_HEADER between two
\* grave accents (config.rs:105).
header_error_message ==
    << "DotSlash file must start with ", GraveAccent >>
        \o REQUIRED_HEADER \o << GraveAccent >>

\* anyhow::Error made from a message (Option::with_context, config.rs:104).
HeaderError == [anyhow |-> "message", msg |-> header_error_message]

\* A serde_jsonrc::Error, by its Category (Error::classify).
JsonError(category) == [kind |-> "serde_jsonrc", category |-> category]

\* The `?` of config.rs:108-109: anyhow::Error::from keeps the
\* serde_jsonrc::Error it wraps, for the caller to downcast.
into_anyhow_opaque(e) == [anyhow |-> "message", msg |-> <<"invalid DotSlash file">>]

into_anyhow(e) == [anyhow |-> "serde_jsonrc::Error", category |-> e.category]

(***************************************************************************)
(* serde_jsonrc::value::Value                                              *)
(*                                                                         *)
(*   [t |-> "null"]                                                        *)
(*   [t |-> "bool", b |-> BOOLEAN]                                         *)
(*   [t |-> "num", k |-> "PosInt", n |-> Nat]                              *)
(*   [t |-> "num", k |-> "NegInt", n |-> negative Int]                     *)
(*   [t |-> "num", k |-> "Float", neg |-> BOOLEAN, w |-> Nat, f |-> digits]*)
(*   [t |-> "str", s |-> sequence of symbols]                              *)
(*   [t |-> "arr", a |-> sequence of Values]                               *)
(*   [t |-> "obj", o |-> function from keys (symbol sequences) to Values]  *)
(***************************************************************************)
Null == [t |-> "null"]
Bool(b) == [t |-> "bool", b |-> b]
PosInt(n) == [t |-> "num", k |-> "PosInt", n |-> n]
NegInt(n) == [t |-> "num", k |-> "NegInt", n |-> n]
Float(neg, w, f) == [t |-> "num", k |-> "Float", neg |-> neg, w |-> w, f |-> f]
Str(s) == [t |-> "str", s |-> s]
Arr(a) == [t |-> "arr", a |-> a]
Obj(o) == [t |-> "obj", o |-> o]

EmptyMap == [k \in {} |-> Null]

\* Map::insert: a later duplicate key replaces the earlier value.
Insert(o, key, v) ==
    [k \in DOMAIN o \cup {key} |-> IF k = key THEN v ELSE o[k]]

(***************************************************************************)
(* serde_jsonrc::from_str::<Value>: JSON with // comments and a trailing   *)
(* comma allowed before a closing bracket or brace.                        *)
(* A parse step returns [ok |-> TRUE, v, i] (the value and the index of    *)
(* the next unread symbol) or [ok |-> FALSE, category].                    *)
(***************************************************************************)
Whitespace == {" ", "\n", "\r", "\t"}
Digits == <<"0", "1", "2", "3", "4", "5", "6", "7", "8", "9">>
IsDigit(c) == \E d \in 1..Len(Digits) : Digits[d] = c
DigitValue(c) == (CHOOSE d \in 1..Len(Digits) : Digits[d] = c) - 1

ParsedAt(v, i) == [ok |-> TRUE, v |-> v, i |-> i]
SyntaxError == [ok |-> FALSE, category |-> "Syntax"]
EofError == [ok |-> FALSE, category |-> "Eof"]

\* The index of the first symbol at or after i that is neither whitespace
\* nor part of a // comment; Len(s) + 1 at the end of input; 0 for a lone
\* "/" (a syntax error).
RECURSIVE SkipLine(_, _)
SkipLine(s, i) ==
    IF i > Len(s) THEN i
    ELSE IF s[i] = "\n" THEN i + 1
    ELSE SkipLine(s, i + 1)

RECURSIVE SkipWhitespace(_, _)
SkipWhitespace(s, i) ==
    IF i > Len(s) THEN i
    ELSE IF s[i] \in Whitespace THEN SkipWhitespace(s, i + 1)
    ELSE IF s[i] = "/"
         THEN IF i + 1 <= Len(s) /\ s[i + 1] = "/"
              THEN SkipWhitespace(s, SkipLine(s, i + 2))
              ELSE 0
    ELSE i

\* The index of the closing quote of the string literal whose content
\* starts at i; 0 at end of input; -1 at a raw control character.
RECURSIVE StringEnd(_, _)
StringEnd(s, i) ==
    IF i > Len(s) THEN 0
    ELSE IF s[i] = "\"" THEN i
    ELSE IF s[i] \in {"\n", "\r", "\t"} THEN -1
    ELSE StringEnd(s, i + 1)

\* s[i] is the opening quote.
ParseString(s, i) ==
    LET e == StringEnd(s, i + 1)
    IN  IF e = 0 THEN EofError
        ELSE IF e = -1 THEN SyntaxError
        ELSE ParsedAt(SubSeq(s, i + 1, e - 1), e + 1)

\* The index after the run of digits that starts at i.
RECURSIVE DigitsEnd(_, _)
DigitsEnd(s, i) ==
    IF i <= Len(s) /\ IsDigit(s[i]) THEN DigitsEnd(s, i + 1) ELSE i

RECURSIVE DecimalValue(_)
DecimalValue(ds) ==
    IF ds = <<>> THEN 0
    ELSE 10 * DecimalValue(SubSeq(ds, 1, Len(ds) - 1)) + DigitValue(ds[Len(ds)])

\* s[i] is "-" or a digit.  No exponent part is modelled.
ParseNumber(s, i) ==
    LET neg == s[i] = "-"
        b == IF neg THEN i + 1 ELSE i
        e == DigitsEnd(s, b)
        w == DecimalValue(SubSeq(s, b, e - 1))
        fe == IF e <= Len(s) /\ s[e] = "." THEN DigitsEnd(s, e + 1) ELSE e
    IN  IF e = b THEN (IF b > Len(s) THEN EofError ELSE SyntaxError)
        ELSE IF e - b > 1 /\ s[b] = "0" THEN SyntaxError
        ELSE IF fe > e
             THEN IF fe = e + 1
                  THEN (IF fe > Len(s) THEN EofError ELSE SyntaxError)
                  ELSE ParsedAt(Float(neg, w, SubSeq(s, e + 1, fe - 1)), fe)
        ELSE IF ~neg THEN ParsedAt(PosInt(w), e)
        ELSE IF w = 0 THEN ParsedAt(Float(TRUE, 0, <<"0">>), e)
        ELSE ParsedAt(NegInt(-w), e)

\* The keyword `word` at i, or the error for a wrong or missing letter.
ParseIdent(s, i, word, v) ==
    IF i + Len(word) - 1 <= Len(s)
    THEN IF SubSeq(s, i, i + Len(word) - 1) = word
         THEN ParsedAt(v, i + Len(word))
         ELSE SyntaxError
    ELSE IF SubSeq(s, i, Len(s)) = SubSeq(word, 1, Len(s) - i + 1)
         THEN EofError
         ELSE SyntaxError

RECURSIVE ParseValue(_, _)
RECURSIVE ParseElements(_, _, _)
RECURSIVE ParseMembers(_, _, _)

\* The elements of an array from i on, after "[" or after a comma: a "]"
\* is accepted in both places (an empty array, a trailing comma).
ParseElements(s, i, acc) ==
    LET j == SkipWhitespace(s, i)
    IN  IF j = 0 THEN SyntaxError
        ELSE IF j > Len(s) THEN EofError
        ELSE IF s[j] = "]" THEN ParsedAt(Arr(acc), j + 1)
        ELSE LET e == ParseValue(s, j)
             IN  IF ~e.ok THEN e
                 ELSE LET n == SkipWhitespace(s, e.i)
                      IN  IF n = 0 THEN SyntaxError
                          ELSE IF n > Len(s) THEN EofError
                          ELSE IF s[n] = ","
                               THEN ParseElements(s, n + 1, Append(acc, e.v))
                          ELSE IF s[n] = "]"
                               THEN ParsedAt(Arr(Append(acc, e.v)), n + 1)
                          ELSE SyntaxError

\* The members of an object from i on.
ParseMembers(s, i, acc) ==
    LET j == SkipWhitespace(s, i)
    IN  IF j = 0 THEN SyntaxError
        ELSE IF j > Len(s) THEN EofError
        ELSE IF s[j] = "}" THEN ParsedAt(Obj(acc), j + 1)
        ELSE IF s[j] # "\"" THEN SyntaxError
        ELSE LET key == ParseString(s, j)
             IN  IF ~key.ok THEN key
                 ELSE LET c == SkipWhitespace(s, key.i)
                      IN  IF c = 0 THEN SyntaxError
                          ELSE IF c > Len(s) THEN EofError
                          ELSE IF s[c] # ":" THEN SyntaxError
                          ELSE LET m == ParseValue(s, SkipWhitespace(s, c + 1))
                                   n == SkipWhitespace(s, m.i)
                               IN  IF SkipWhitespace(s, c + 1) = 0 THEN SyntaxError
                                   ELSE IF ~m.ok THEN m
                                   ELSE IF n = 0 THEN SyntaxError
                                   ELSE IF n > Len(s) THEN EofError
                                   ELSE IF s[n] = ","
                                        THEN ParseMembers(s, n + 1,
                                                 Insert(acc, key.v, m.v))
                                   ELSE IF s[n] = "}"
                                        THEN ParsedAt(Obj(Insert(acc, key.v, m.v)), n + 1)
                                   ELSE SyntaxError

\* The value that starts at i (no whitespace before it).
ParseValue(s, i) ==
    IF i > Len(s) THEN EofError
    ELSE IF s[i] = "{" THEN ParseMembers(s, i + 1, EmptyMap)
    ELSE IF s[i] = "[" THEN ParseElements(s, i + 1, <<>>)
    ELSE IF s[i] = "\""
         THEN LET r == ParseString(s, i)
              IN  IF r.ok THEN ParsedAt(Str(r.v), r.i) ELSE r
    ELSE IF s[i] = "-" \/ IsDigit(s[i]) THEN ParseNumber(s, i)
    ELSE IF s[i] = "t" THEN ParseIdent(s, i, <<"t", "r", "u", "e">>, Bool(TRUE))
    ELSE IF s[i] = "f"
         THEN ParseIdent(s, i, <<"f", "a", "l", "s", "e">>, Bool(FALSE))
    ELSE IF s[i] = "n" THEN ParseIdent(s, i, <<"n", "u", "l", "l">>, Null)
    ELSE SyntaxError

\* Result<T, E>
Ok(x) == [ok |-> TRUE, v |-> x]
Err(e) == [ok |-> FALSE, err |-> e]

\* from_str: one value, then only whitespace and comments to the end.
from_str(s) ==
    LET b == SkipWhitespace(s, 1)
        r == ParseValue(s, b)
        e == SkipWhitespace(s, r.i)
    IN  IF b = 0 THEN Err(JsonError("Syntax"))
        ELSE IF ~r.ok THEN Err(JsonError(r.category))
        ELSE IF e = Len(s) + 1 THEN Ok(r.v)
        ELSE Err(JsonError("Syntax"))

(***************************************************************************)
(* Deserialize from &Value.  Every failure is a serde_jsonrc::Error made   *)
(* by serde::de::Error (invalid_type, missing_field, unknown_variant,      *)
(* custom, ...), whose Category is Data.                                   *)
(***************************************************************************)
DataError == Err(JsonError("Data"))

\* String
de_String(v) == IF v.t = "str" THEN Ok(v.s) ELSE DataError

\* u64: a non-negative integer; a negative integer or a float is refused.
de_u64(v) == IF v.t = "num" /\ v.k = "PosInt" THEN Ok(v.n) ELSE DataError

\* bool
de_bool(v) == IF v.t = "bool" THEN Ok(v.b) ELSE DataError

\* de_providers, were a provider a typed struct: an object, nothing else.
de_providers_objects(v) ==
    IF v.t = "arr" /\ \A i \in 1..Len(v.a) : v.a[i].t = "obj"
    THEN Ok(v.a) ELSE DataError

\* Vec<Value>: any array, its elements kept as they are.
de_providers(v) == IF v.t = "arr" THEN Ok(v.a) ELSE DataError

\* The wire names of HashAlgorithm's variants (#[serde(rename = ...)]).
HashAlgorithm == {"Blake3", "Sha256"}

hash_wire_name(variant) ==
    IF variant = "Blake3" THEN <<"blake3">> ELSE <<"sha256">>

hash_variant(name) ==
    IF \E h \in HashAlgorithm : hash_wire_name(h) = name
    THEN Ok(CHOOSE h \in HashAlgorithm : hash_wire_name(h) = name)
    ELSE DataError

\* The derived Deserialize of a unit-variant enum, from a Value: a string
\* naming the variant, or the externally tagged form, an object with the
\* variant's name as its single key and null as the value.
de_HashAlgorithm(v) ==
    IF v.t = "str" THEN hash_variant(v.s)
    ELSE IF v.t = "obj" /\ Cardinality(DOMAIN v.o) = 1
         THEN LET key == CHOOSE k \in DOMAIN v.o : TRUE
              IN  IF v.o[key] = Null THEN hash_variant(key) ELSE DataError
    ELSE DataError

\* crate::digest::Digest: a string of hexadecimal digits.  The only
\* hexadecimal chunk is the digest of the tests.
HexChunks ==
    {"7f83b1657ff1fc53b92dc18148a1d65dfc2d4b1fa3d677284addd200126d9069"}

de_Digest(v) ==
    IF v.t = "str" /\ Len(v.s) = 1 /\ v.s[1] \in HexChunks
    THEN Ok(v.s) ELSE DataError

\* crate::artifact_path::ArtifactPath: a relative path with no parent
\* directory component.
PathOk(s) ==
    /\ s # <<>>
    /\ s[1] # "/"
    /\ \A i \in 1..Len(s) : s[i] # ".."

de_ArtifactPath(v) ==
    IF v.t = "str" /\ PathOk(v.s) THEN Ok(v.s) ELSE DataError

\* crate::fetch_method::ArtifactFormat: the wire name of each variant that
\* has one in the spec or in the tests, and the Default variant.
ArtifactFormat == {"Plain", "Tar"}

format_wire_name(variant) ==
    IF variant = "Tar" THEN <<"tar">> ELSE <<"plain">>

format_default == "Plain"

de_ArtifactFormat(v) ==
    IF v.t = "str" /\ \E f \in ArtifactFormat : format_wire_name(f) = v.s
    THEN Ok(CHOOSE f \in ArtifactFormat : format_wire_name(f) = v.s)
    ELSE DataError

readonly_default_as_true == TRUE

\* is_true, were the test the wrong way round.
is_true_negated(b) == ~b

is_true(b) == b

\* The value a derived struct visitor finds for a field: in map form
\* (visit_map) the value at the field's key, keys no field names being
\* skipped; in sequence form (visit_seq) the element at its position.
struct_field(v, key, pos) ==
    IF v.t = "obj"
    THEN (IF <<key>> \in DOMAIN v.o THEN Some(v.o[<<key>>]) ELSE None)
    ELSE IF pos <= Len(v.a) THEN Some(v.a[pos])
    ELSE None

\* A field that was not found: its default when it has one, else the
\* error missing_field (map form) or invalid_length (sequence form).
missing_field(dflt) == IF dflt.some THEN Ok(dflt.v) ELSE DataError

ArtifactEntryFields == 7

ArtifactEntryKeys ==
    {<<"size">>, <<"hash">>, <<"digest">>, <<"format">>, <<"path">>,
     <<"providers">>, <<"readonly">>}

\* The struct, once every field has its value.
build_ArtifactEntry(size, hash, digest, format, path, providers, readonly) ==
    IF /\ size.ok /\ hash.ok /\ digest.ok /\ format.ok
       /\ path.ok /\ providers.ok /\ readonly.ok
    THEN Ok([size |-> size.v, hash |-> hash.v, digest |-> digest.v,
             format |-> format.v, path |-> path.v,
             providers |-> providers.v, readonly |-> readonly.v])
    ELSE DataError

\* de_ArtifactEntry, were `format` without #[serde(default)].
de_ArtifactEntry_format_required(v) ==
    IF v.t \notin {"obj", "arr"} THEN DataError
    ELSE IF v.t = "arr" /\ Len(v.a) > ArtifactEntryFields THEN DataError
    ELSE LET size == struct_field(v, "size", 1)
             hash == struct_field(v, "hash", 2)
             digest == struct_field(v, "digest", 3)
             format == struct_field(v, "format", 4)
             path == struct_field(v, "path", 5)
             providers == struct_field(v, "providers", 6)
             readonly == struct_field(v, "readonly", 7)
         IN  build_ArtifactEntry(
                IF size.some THEN de_u64(size.v) ELSE missing_field(None),
                IF hash.some THEN de_HashAlgorithm(hash.v) ELSE missing_field(None),
                IF digest.some THEN de_Digest(digest.v) ELSE missing_field(None),
                IF format.some THEN de_ArtifactFormat(format.v)
                    ELSE missing_field(None),
                IF path.some THEN de_ArtifactPath(path.v) ELSE missing_field(None),
                IF providers.some THEN de_providers(providers.v)
                    ELSE missing_field(None),
                IF readonly.some THEN de_bool(readonly.v)
                    ELSE missing_field(Some(readonly_default_as_true)))

\* de_ArtifactEntry, were the struct #[serde(deny_unknown_fields)].
de_ArtifactEntry_deny_unknown(v) ==
    IF v.t \notin {"obj", "arr"} THEN DataError
    ELSE IF v.t = "arr" /\ Len(v.a) > ArtifactEntryFields THEN DataError
    ELSE IF v.t = "obj" /\ ~(DOMAIN v.o \subseteq ArtifactEntryKeys) THEN DataError
    ELSE LET size == struct_field(v, "size", 1)
             hash == struct_field(v, "hash", 2)
             digest == struct_field(v, "digest", 3)
             format == struct_field(v, "format", 4)
             path == struct_field(v, "path", 5)
             providers == struct_field(v, "providers", 6)
             readonly == struct_field(v, "readonly", 7)
         IN  build_ArtifactEntry(
                IF size.some THEN de_u64(size.v) ELSE missing_field(None),
                IF hash.some THEN de_HashAlgorithm(hash.v) ELSE missing_field(None),
                IF digest.some THEN de_Digest(digest.v) ELSE missing_field(None),
                IF format.some THEN de_ArtifactFormat(format.v)
                    ELSE missing_field(Some(format_default)),
                IF path.some THEN de_ArtifactPath(path.v) ELSE missing_field(None),
                IF providers.some THEN de_providers(providers.v)
                    ELSE missing_field(None),
                IF readonly.some THEN de_bool(readonly.v)
                    ELSE missing_field(Some(readonly_default_as_true)))

\* #[derive(Deserialize)] struct ArtifactEntry, from a Value: an object
\* (by key) or an array (by position, with no element left over).
de_ArtifactEntry(v) ==
    IF v.t \notin {"obj", "arr"} THEN DataError
    ELSE IF v.t = "arr" /\ Len(v.a) > ArtifactEntryFields THEN DataError
    ELSE LET size == struct_field(v, "size", 1)
             hash == struct_field(v, "hash", 2)
             digest == struct_field(v, "digest", 3)
             format == struct_field(v, "format", 4)
             path == struct_field(v, "path", 5)
             providers == struct_field(v, "providers", 6)
             readonly == struct_field(v, "readonly", 7)
         IN  build_ArtifactEntry(
                IF size.some THEN de_u64(size.v) ELSE missing_field(None),
                IF hash.some THEN de_HashAlgorithm(hash.v) ELSE missing_field(None),
                IF digest.some THEN de_Digest(digest.v) ELSE missing_field(None),
                IF format.some THEN de_ArtifactFormat(format.v)
                    ELSE missing_field(Some(format_default)),
                IF path.some THEN de_ArtifactPath(path.v) ELSE missing_field(None),
                IF providers.some THEN de_providers(providers.v)
                    ELSE missing_field(None),
                IF readonly.some THEN de_bool(readonly.v)
                    ELSE missing_field(Some(readonly_default_as_true)))

\* HashMap<String, ArtifactEntry>: an object, each value an ArtifactEntry.
de_platforms(v) ==
    IF v.t = "obj" /\ \A k \in DOMAIN v.o : de_ArtifactEntry(v.o[k]).ok
    THEN Ok([k \in DOMAIN v.o |-> de_ArtifactEntry(v.o[k]).v])
    ELSE DataError

ConfigFileFields == 2

\* #[derive(Deserialize)] struct ConfigFile, from a Value.
de_ConfigFile(v) ==
    IF v.t \notin {"obj", "arr"} THEN DataError
    ELSE IF v.t = "arr" /\ Len(v.a) > ConfigFileFields THEN DataError
    ELSE LET name == struct_field(v, "name", 1)
             platforms == struct_field(v, "platforms", 2)
             n == IF name.some THEN de_String(name.v) ELSE missing_field(None)
             ps == IF platforms.some THEN de_platforms(platforms.v)
                   ELSE missing_field(None)
         IN  IF n.ok /\ ps.ok
             THEN Ok([name |-> n.v, platforms |-> ps.v])
             ELSE DataError

(***************************************************************************)
(* #[derive(Serialize)] struct ArtifactEntry, through to_value: an object  *)
(* with one key per field, `readonly` skipped when is_true.                *)
(***************************************************************************)
SerializedKeys(entry) ==
    {<<"size">>, <<"hash">>, <<"digest">>, <<"format">>, <<"path">>,
     <<"providers">>}
        \cup (IF is_true(entry.readonly) THEN {} ELSE {<<"readonly">>})

to_value(entry) ==
    Obj([k \in SerializedKeys(entry) |->
            CASE k = <<"size">> -> PosInt(entry.size)
              [] k = <<"hash">> -> Str(hash_wire_name(entry.hash))
              [] k = <<"digest">> -> Str(entry.digest)
              [] k = <<"format">> -> Str(format_wire_name(entry.format))
              [] k = <<"path">> -> Str(entry.path)
              [] k = <<"providers">> -> Arr(entry.providers)
              [] k = <<"readonly">> -> Bool(entry.readonly)])

(***************************************************************************)
(* The documents parse_file is given.  A document is written from a Value  *)
(* in one of two styles: "compact" (no whitespace) and "loose" (the style  *)
(* of the tests: line breaks, indentation, a // comment, a trailing comma  *)
(* after the last member of every object and element of every array).     *)
(***************************************************************************)
Quote == "\""

RECURSIVE DigitsOf(_)
DigitsOf(n) ==
    IF n < 10 THEN <<Digits[n + 1]>>
    ELSE Append(DigitsOf(n \div 10), Digits[(n % 10) + 1])

RECURSIVE KeySeq(_)
KeySeq(S) ==
    IF S = {} THEN <<>>
    ELSE LET k == CHOOSE x \in S : TRUE IN <<k>> \o KeySeq(S \ {k})

Styles == {"compact", "loose"}

Separator(st) == IF st = "loose" THEN <<",", "\n", " ">> ELSE <<",">>
Opening(st) == IF st = "loose" THEN <<"\n", " ">> ELSE <<>>
Closing(st) == IF st = "loose" THEN <<",", "\n">> ELSE <<>>
Comment(st) == IF st = "loose" THEN <<" ", "/", "/", "c", "}">> ELSE <<>>

RECURSIVE Render(_, _)
RECURSIVE RenderElements(_, _, _)
RECURSIVE RenderMembers(_, _, _, _)

RenderElements(a, i, st) ==
    IF i > Len(a) THEN <<>>
    ELSE Render(a[i], st)
            \o (IF i < Len(a) THEN Separator(st) ELSE Closing(st))
            \o RenderElements(a, i + 1, st)

RenderMembers(o, keys, i, st) ==
    IF i > Len(keys) THEN <<>>
    ELSE <<Quote>> \o keys[i] \o <<Quote, ":">>
            \o (IF st = "loose" THEN <<" ">> ELSE <<>>)
            \o Render(o[keys[i]], st)
            \o (IF i < Len(keys) THEN Separator(st) ELSE Closing(st))
            \o RenderMembers(o, keys, i + 1, st)

Render(v, st) ==
    CASE v.t = "null" -> <<"n", "u", "l", "l">>
      [] v.t = "bool" -> IF v.b THEN <<"t", "r", "u", "e">>
                         ELSE <<"f", "a", "l", "s", "e">>
      [] v.t = "num" ->
            IF v.k = "PosInt" THEN DigitsOf(v.n)
            ELSE IF v.k = "NegInt" THEN <<"-">> \o DigitsOf(-v.n)
            ELSE (IF v.neg THEN <<"-">> ELSE <<>>)
                    \o DigitsOf(v.w) \o <<".">> \o v.f
      [] v.t = "str" -> <<Quote>> \o v.s \o <<Quote>>
      [] v.t = "arr" ->
            IF v.a = <<>> THEN <<"[", "]">>
            ELSE <<"[">> \o Opening(st) \o RenderElements(v.a, 1, st) \o <<"]">>
      [] v.t = "obj" ->
            IF DOMAIN v.o = {} THEN <<"{">> \o Comment(st) \o Opening(st) \o <<"}">>
            ELSE <<"{">> \o Comment(st) \o Opening(st)
                    \o RenderMembers(v.o, KeySeq(DOMAIN v.o), 1, st) \o <<"}">>

\* A one-chunk string and an object given by its keys (chunks) and values.
S(chunk) == Str(<<chunk>>)
Object(keys, vals) ==
    Obj([k \in {<<keys[i]>> : i \in 1..Len(keys)} |->
            vals[CHOOSE i \in 1..Len(keys) : <<keys[i]>> = k]])

Remove(o, key) == [k \in DOMAIN o \ {key} |-> o[k]]

\* The artifact entry of the tests (config.rs:138-150, without `format`).
HttpProvider == Object(<<"type", "url">>, <<S("http"), S("https://example.com")>>)
OtherProvider == Object(<<"repo", "tag">>, <<S("github"), PosInt(7)>>)
TestDigest == S("7f83b1657ff1fc53b92dc18148a1d65dfc2d4b1fa3d677284addd200126d9069")
TestPath == Str(<<"bindir", "/", "my_tool">>)
TestSize == PosInt(123)

BaseEntry ==
    Object(<<"size", "hash", "digest", "path", "providers">>,
           <<TestSize, S("sha256"), TestDigest, TestPath, Arr(<<HttpProvider>>)>>)

\* The changes made to BaseEntry: a key set to a value, or removed.
Set(key, v) == [key |-> <<key>>, v |-> Some(v)]
Unset(key) == [key |-> <<key>>, v |-> None]

EntryEdits ==
    << Unset("size"), Set("size", PosInt(0)), Set("size", NegInt(-1)),
       Set("size", Float(FALSE, 1, <<"5">>)), Set("size", S("123")),
       Unset("hash"), Set("hash", S("blake3")), Set("hash", S("md5")),
       Set("hash", S("SHA256")), Set("hash", S("Blake3")),
       Set("hash", PosInt(1)), Set("hash", Null),
       Set("hash", Object(<<"sha256">>, <<Null>>)),
       Set("hash", Object(<<"sha256">>, <<Bool(TRUE)>>)),
       Set("hash", Object(<<"md5">>, <<Null>>)),
       Set("hash", Object(<<"sha256", "blake3">>, <<Null, Null>>)),
       Unset("digest"), Set("digest", S("not hex")), Set("digest", PosInt(1)),
       Set("format", S("tar")), Set("format", S("TAR")), Set("format", Null),
       Unset("path"), Set("path", Str(<<"/", "abs">>)),
       Set("path", Str(<<"..", "/", "x">>)),
       Unset("providers"), Set("providers", Arr(<<>>)),
       Set("providers", Arr(<<HttpProvider, OtherProvider>>)),
       Set("providers", Arr(<<PosInt(1), S("s"), Null, Arr(<<Bool(TRUE)>>)>>)),
       Set("providers", S("http")),
       Set("readonly", Bool(TRUE)), Set("readonly", Bool(FALSE)),
       Set("readonly", S("false")), Set("readonly", Null),
       Set("writeable", Bool(TRUE)), Set("writeable", Bool(FALSE)),
       Set("comment", Object(<<"by">>, <<S("me")>>)) >>

ApplyEdit(o, e) == IF e.v.some THEN Insert(o, e.key, e.v.v) ELSE Remove(o, e.key)

\* o after the edits numbered by `which`, in increasing order.
RECURSIVE ApplyEdits(_, _)
ApplyEdits(o, which) ==
    IF which = {} THEN o
    ELSE LET m == CHOOSE x \in which : \A y \in which : x <= y
         IN  ApplyEdits(ApplyEdit(o, EntryEdits[m]), which \ {m})

\* The most edits made to one entry.
MaxEdits == 2

\* The sets of at most n edits.
RECURSIVE EditSets(_)
EditSets(n) ==
    IF n = 0 THEN {{}}
    ELSE EditSets(n - 1)
            \cup {w \cup {e} : w \in EditSets(n - 1), e \in 1..Len(EntryEdits)}

ObjectEntries(n) == {Obj(ApplyEdits(BaseEntry.o, w)) : w \in EditSets(n)}

\* Entries in sequence form: the fields by position, one more than the
\* struct has at the longest.
PositionalFields ==
    << TestSize, S("sha256"), TestDigest, S("tar"), TestPath,
       Arr(<<HttpProvider>>), Bool(FALSE), Null >>

ArrayEntries == {Arr(SubSeq(PositionalFields, 1, n)) : n \in 0..Len(PositionalFields)}

OtherEntries == {Null, S("entry"), PosInt(1)}

ManifestDocument(platforms) == Object(<<"name", "platforms">>, <<S("my_tool"), platforms>>)

\* The documents: the test manifest with its one entry edited; with two
\* entries; with an entry that is no object; and the top-level shapes.
OnePlatform(e) == ManifestDocument(Object(<<"linux-x86_64">>, <<e>>))
TwoPlatforms(e1, e2) == ManifestDocument(Object(<<"linux-x86_64", "macos-aarch64">>, <<e1, e2>>))

TopLevelDocuments ==
    { ManifestDocument(Obj(EmptyMap)),
      Obj(EmptyMap),
      Object(<<"name">>, <<S("my_tool")>>),
      Object(<<"platforms">>, <<Obj(EmptyMap)>>),
      Object(<<"name", "platforms">>, <<PosInt(1), Obj(EmptyMap)>>),
      Object(<<"name", "platforms">>, <<Null, Obj(EmptyMap)>>),
      Object(<<"Name", "platforms">>, <<S("my_tool"), Obj(EmptyMap)>>),
      ManifestDocument(Arr(<<>>)), ManifestDocument(Arr(<<BaseEntry>>)), ManifestDocument(Null),
      ManifestDocument(S("linux-x86_64")),
      Object(<<"name", "platforms", "writeable">>,
             <<S("my_tool"), Obj(EmptyMap), Bool(TRUE)>>),
      Object(<<"name", "platforms", "comment">>,
             <<S("my_tool"), Object(<<"linux-x86_64">>, <<BaseEntry>>), S("x")>>),
      Arr(<<>>), Arr(<<S("my_tool")>>), Arr(<<S("my_tool"), Obj(EmptyMap)>>),
      Arr(<<S("my_tool"), Object(<<"linux-x86_64">>, <<BaseEntry>>)>>),
      Arr(<<S("my_tool"), Obj(EmptyMap), Null>>),
      Arr(<<Obj(EmptyMap), S("my_tool")>>),
      Null, Bool(TRUE), PosInt(1), S("my_tool") }

Documents ==
    {OnePlatform(e) : e \in ObjectEntries(MaxEdits) \cup ArrayEntries \cup OtherEntries}
        \cup {TwoPlatforms(e1, e2) : e1 \in ObjectEntries(1), e2 \in ObjectEntries(1)}
        \cup TopLevelDocuments

\* A body is the text after the header line, with what is known of it by
\* construction: whether it is well formed and, if so, the Value written.
WellFormed(doc, st) == [text |-> Render(doc, st), valid |-> TRUE, doc |-> doc]
Malformed(text) == [text |-> text, valid |-> FALSE, doc |-> Null]

FirstIndex(s, c) ==
    IF \E i \in 1..Len(s) : s[i] = c
    THEN CHOOSE i \in 1..Len(s) : s[i] = c /\ \A j \in 1..(i - 1) : s[j] # c
    ELSE 0

InsertAt(s, i, c) == SubSeq(s, 1, i - 1) \o <<c>> \o SubSeq(s, i, Len(s))
DeleteAt(s, i) == SubSeq(s, 1, i - 1) \o SubSeq(s, i + 1, Len(s))
ReplaceAt(s, i, c) == [s EXCEPT ![i] = c]

\* The ways a text written from an object with two members or more is
\* made malformed.
Damages ==
    {"no closing brace", "second closing brace", "comma after the brace",
     "comma for the colon", "two commas", "key not quoted", "lone slash",
     "line break in a string"}

Damage(s, how) ==
    CASE how = "no closing brace" -> SubSeq(s, 1, Len(s) - 1)
      [] how = "second closing brace" -> Append(s, "}")
      [] how = "comma after the brace" -> InsertAt(s, 2, ",")
      [] how = "comma for the colon" -> ReplaceAt(s, FirstIndex(s, ":"), ",")
      [] how = "two commas" -> InsertAt(s, FirstIndex(s, ","), ",")
      [] how = "key not quoted" -> DeleteAt(s, FirstIndex(s, Quote))
      [] how = "lone slash" -> <<"/">> \o s
      [] how = "line break in a string" -> InsertAt(s, FirstIndex(s, Quote) + 1, "\n")

\* Documents that are damaged: one the schema accepts and two it refuses.
DamagedDocuments ==
    { OnePlatform(BaseEntry),
      Object(<<"name", "size">>, <<S("my_tool"), PosInt(1)>>),
      OnePlatform(Obj(ApplyEdit(BaseEntry.o, Set("hash", S("md5"))))) }

MalformedBodies ==
    {Malformed(Damage(Render(d, st), how)) :
        d \in DamagedDocuments, st \in Styles, how \in Damages}
        \cup {Malformed(<<>>), Malformed(<<"\n">>), Malformed(<<"{">>),
              Malformed(<<"t", "r", "u">>), Malformed(<<"0", "1">>)}

\* The first lines: the marker, the marker with one character removed,
\* replaced or added, in another case, cut short, and with something before.
Markers ==
    {REQUIRED_HEADER}
        \cup {DeleteAt(REQUIRED_HEADER, i) : i \in 1..Len(REQUIRED_HEADER)}
        \cup {ReplaceAt(REQUIRED_HEADER, i, "X") : i \in 1..Len(REQUIRED_HEADER)}
        \cup {SubSeq(REQUIRED_HEADER, 1, n) : n \in 0..Len(REQUIRED_HEADER)}
        \cup {<<c>> \o REQUIRED_HEADER : c \in {" ", "\n", "\t", "<U+FEFF>"}}
        \cup {Append(REQUIRED_HEADER, c) : c \in {"2", ";"}}
        \cup {ReplaceAt(REQUIRED_HEADER, 16, "D"),
              ReplaceAt(ReplaceAt(REQUIRED_HEADER, 16, "D"), 19, "S"),
              ReplaceAt(REQUIRED_HEADER, 12, "E")}

Terminators ==
    { <<>>, LF, CRLF, <<"\r">>, <<" ">>, <<" ", "\n">>, <<"\t", "\r", "\n">>,
      <<"\r", "\r", "\n">>, <<"\n", "\n">>, <<"\n", "\r", "\n">>,
      <<"\r", "\n", "\n">>, <<"\r", "\n", "\r", "\n">> }

HeaderBodies ==
    { WellFormed(OnePlatform(BaseEntry), "compact"),
      WellFormed(Obj(EmptyMap), "loose"),
      Malformed(<<>>), Malformed(<<"{">>) }

\* Manifests are written compact after an LF or loose after a CRLF.
Layouts == {<<LF, "compact">>, <<CRLF, "loose">>}

Init ==
    /\ \/ \E d \in Documents, l \in Layouts :
            /\ input = REQUIRED_HEADER \o l[1] \o Render(d, l[2])
            /\ body = WellFormed(d, l[2])
       \/ \E b \in MalformedBodies, t \in {LF, CRLF} :
            /\ input = REQUIRED_HEADER \o t \o b.text
            /\ body = b
       \/ \E m \in Markers, t \in Terminators, b \in HeaderBodies :
            /\ input = m \o t \o b.text
            /\ body = b
    /\ pc = "header"
    /\ rest = None
    /\ value = None
    /\ result = None
    /\ ran = <<>>
    /\ written = None
    /\ reread = None

(***************************************************************************)
(* parse_file, stage by stage.  Each `?` and the with_context of           *)
(* config.rs:104 returns the stage's error at once.                        *)
(***************************************************************************)
StripHeader ==
    /\ pc = "header"
    /\ ran' = Append(ran, "header")
    /\ LET data == strip_header(input)
       IN  IF data.some
           THEN /\ rest' = data
                /\ pc' = "syntax"
                /\ UNCHANGED result
           ELSE /\ result' = Some(Err(HeaderError))
                /\ pc' = "returned"
                /\ UNCHANGED rest
    /\ UNCHANGED <<input, body, value, written, reread>>

ParseDocument ==
    /\ pc = "syntax"
    /\ ran' = Append(ran, "syntax")
    /\ LET parsed == from_str(rest.v)
       IN  IF parsed.ok
           THEN /\ value' = Some(parsed.v)
                /\ pc' = "schema"
                /\ UNCHANGED result
           ELSE /\ result' = Some(Err(into_anyhow(parsed.err)))
                /\ pc' = "returned"
                /\ UNCHANGED value
    /\ UNCHANGED <<input, body, rest, written, reread>>

DeserializeConfig ==
    /\ pc = "schema"
    /\ ran' = Append(ran, "schema")
    /\ LET config_file == de_ConfigFile(value.v)
       IN  result' = Some(IF config_file.ok
                          THEN Ok([value |-> value.v, config_file |-> config_file.v])
                          ELSE Err(into_anyhow(config_file.err)))
    /\ pc' = "returned"
    /\ UNCHANGED <<input, body, rest, value, written, reread>>

\* The caller serializes one entry of the manifest it was given ...
SerializeEntry ==
    /\ pc = "returned"
    /\ result.v.ok
    /\ \E p \in DOMAIN result.v.v.config_file.platforms :
          written' = Some([platform |-> p,
                           v |-> to_value(result.v.v.config_file.platforms[p])])
    /\ pc' = "written"
    /\ UNCHANGED <<input, body, rest, value, result, ran, reread>>

\* ... and deserializes what was written.
DeserializeEntry ==
    /\ pc = "written"
    /\ reread' = Some(de_ArtifactEntry(written.v.v))
    /\ pc' = "reread"
    /\ UNCHANGED <<input, body, rest, value, result, ran, written>>

Next ==
    \/ StripHeader
    \/ ParseDocument
    \/ DeserializeConfig
    \/ SerializeEntry
    \/ DeserializeEntry

Spec == Init /\ [][Next]_vars

\* parse_file as a function of its input.
parse_file(data) ==
    LET stripped == strip_header(data)
        parsed == from_str(stripped.v)
        config_file == de_ConfigFile(parsed.v)
    IN  IF ~stripped.some THEN Err(HeaderError)
        ELSE IF ~parsed.ok THEN Err(into_anyhow(parsed.err))
        ELSE IF ~config_file.ok THEN Err(into_anyhow(config_file.err))
        ELSE Ok([value |-> parsed.v, config_file |-> config_file.v])

(***************************************************************************)
(* What the claims speak of, stated on the text itself.                    *)
(***************************************************************************)
Marker ==
    << "#", "!", "/", "u", "s", "r", "/", "b", "i", "n", "/", "e", "n", "v",
       " ", "d", "o", "t", "s", "l", "a", "s", "h" >>

MarkerAtStart(data) ==
    /\ Len(data) >= Len(Marker)
    /\ \A i \in 1..Len(Marker) : data[i] = Marker[i]

\* The length of the line terminator right after the marker, 0 for none.
TerminatorLength(data) ==
    LET n == Len(Marker)
    IN  IF Len(data) > n /\ data[n + 1] = "\n" THEN 1
        ELSE IF Len(data) > n + 1 /\ data[n + 1] = "\r" /\ data[n + 2] = "\n" THEN 2
        ELSE 0

HasHeaderLine(data) == MarkerAtStart(data) /\ TerminatorLength(data) > 0

Contains(s, sub) ==
    \E i \in 0..(Len(s) - Len(sub)) : SubSeq(s, i + 1, i + Len(sub)) = sub

\* The message asserted by tests::header_must_be_present (config.rs:244).
TestedMessage ==
    <<"DotSlash file must start with ", GraveAccent>> \o Marker \o <<GraveAccent>>

IsHeaderError(r) == ~r.ok /\ r.err = [anyhow |-> "message", msg |-> TestedMessage]

IsSyntaxError(r) ==
    /\ ~r.ok
    /\ r.err.anyhow = "serde_jsonrc::Error"
    /\ r.err.category \in {"Syntax", "Eof"}

IsSchemaError(r) ==
    /\ ~r.ok
    /\ r.err.anyhow = "serde_jsonrc::Error"
    /\ r.err.category = "Data"

\* C1: once the header stage has run on a text that does not start with
\* the marker followed at once by CRLF or LF, parse_file has returned the
\* header error, whose message is the tested one and contains the marker.
C1_HeaderError ==
    (pc # "header" /\ ~HasHeaderLine(input)) =>
        /\ result.some
        /\ IsHeaderError(result.v)
        /\ Contains(result.v.err.msg, Marker)

\* C1 happens: the marker followed by a lone carriage return is refused.
C1_Witness ==
    /\ pc = "returned"
    /\ MarkerAtStart(input)
    /\ Len(input) > Len(Marker)
    /\ input[Len(Marker) + 1] = "\r"
    /\ TerminatorLength(input) = 0
    /\ IsHeaderError(result.v)

\* C2: once the header stage has run on a text that starts with the marker
\* and a CRLF or LF, the stage has succeeded and the text kept for the
\* document parser is the input after that one terminator, no more.
C2_Remainder ==
    (pc # "header" /\ HasHeaderLine(input)) =>
        /\ rest.some
        /\ rest.v = SubSeq(input, Len(Marker) + TerminatorLength(input) + 1,
                           Len(input))
        /\ Marker \o (IF TerminatorLength(input) = 2 THEN <<"\r", "\n">>
                       ELSE <<"\n">>) \o rest.v = input
        /\ result.some => ~IsHeaderError(result.v)

\* C2 happens: a CRLF terminator is removed whole and the line break after
\* it is kept.
C2_Witness ==
    /\ pc # "header"
    /\ HasHeaderLine(input)
    /\ TerminatorLength(input) = 2
    /\ rest.some
    /\ rest.v # <<>>
    /\ rest.v[1] = "\n"

StageOrder == <<"header", "syntax", "schema">>

\* C3: the stages run in the order header, syntax, schema; a text without
\* the header line gets the header error and the document parser never
\* runs on it; a text with the header line and a malformed document gets
\* the syntax error, never a schema error or a manifest.
C3_StageOrder ==
    /\ ran = SubSeq(StageOrder, 1, Len(ran))
    /\ result.some =>
          /\ ~HasHeaderLine(input) =>
                /\ IsHeaderError(result.v)
                /\ ran = <<"header">>
                /\ value = None
          /\ (HasHeaderLine(input) /\ ~body.valid) =>
                /\ IsSyntaxError(result.v)
                /\ ran = <<"header", "syntax">>
                /\ value = None

\* C3 happens: a malformed document that the schema would refuse as well
\* (its hash is md5) is reported as a syntax error.
C3_Witness ==
    /\ pc = "returned"
    /\ HasHeaderLine(input)
    /\ ~body.valid
    /\ Contains(body.text, <<"md5">>)
    /\ IsSyntaxError(result.v)

\* The stage an error tells its receiver: a message alone is the header
\* error; a serde_jsonrc::Error tells syntax from schema by its category.
StageOf(err) ==
    IF err.anyhow = "message" THEN "header"
    ELSE IF err.category \in {"Syntax", "Eof"} THEN "syntax"
    ELSE "schema"

\* C4: every failure of parse_file is one error that tells the stage that
\* failed, the last stage that ran.
C4_ErrorKinds ==
    (result.some /\ ~result.v.ok) =>
        /\ ran # <<>>
        /\ StageOf(result.v.err) = ran[Len(ran)]

\* C4 happens: a well-formed document the schema refuses.
C4_Witness ==
    /\ pc = "returned"
    /\ ran = StageOrder
    /\ ~result.v.ok
    /\ StageOf(result.v.err) = "schema"

(***************************************************************************)
(* What the claims speak of, stated on the document that was written.      *)
(***************************************************************************)
HasKey(v, key) == v.t = "obj" /\ <<key>> \in DOMAIN v.o
Field(v, key) == v.o[<<key>>]

\* The field of a raw struct value: by key in an object, by position in an
\* array.
RawField(v, key, pos) ==
    IF v.t = "obj"
    THEN (IF <<key>> \in DOMAIN v.o THEN Some(v.o[<<key>>]) ELSE None)
    ELSE IF v.t = "arr" /\ pos <= Len(v.a) THEN Some(v.a[pos])
    ELSE None

\* The raw artifact entries of a document, by platform.
RawPlatforms(doc) ==
    LET platforms == RawField(doc, "platforms", 2)
    IN  IF platforms.some /\ platforms.v.t = "obj" THEN platforms.v.o ELSE EmptyMap

Parsed == result.some /\ result.v.ok
TypedManifest == result.v.v.config_file
RawTree == result.v.v.value

\* An entry the spec accepts: the required keys with well-typed values,
\* `format` absent or "tar", `readonly` absent or a boolean.
AcceptedEntry(e) ==
    /\ HasKey(e, "size") /\ Field(e, "size").t = "num" /\ Field(e, "size").k = "PosInt"
    /\ HasKey(e, "hash") /\ Field(e, "hash") \in {S("blake3"), S("sha256")}
    /\ HasKey(e, "digest") /\ Field(e, "digest") = TestDigest
    /\ HasKey(e, "path") /\ Field(e, "path") = TestPath
    /\ HasKey(e, "providers") /\ Field(e, "providers").t = "arr"
    /\ HasKey(e, "format") => Field(e, "format") = S("tar")
    /\ HasKey(e, "readonly") => Field(e, "readonly").t = "bool"

AcceptedDocument(doc) ==
    /\ HasKey(doc, "name") /\ Field(doc, "name").t = "str"
    /\ HasKey(doc, "platforms") /\ Field(doc, "platforms").t = "obj"
    /\ \A p \in DOMAIN Field(doc, "platforms").o :
            AcceptedEntry(Field(doc, "platforms").o[p])

\* The text was a header line and a well-formed document, and parse_file
\* has returned.
Decided == result.some /\ HasHeaderLine(input) /\ body.valid

\* C5: an entry written without `readonly` is read with readonly true, one
\* written with false is read with false; an entry with readonly true is
\* serialized without the key, one with false with the key and false; the
\* entry read back from that has the same readonly.
C5_Readonly ==
    /\ (Parsed /\ body.valid) =>
          \A p \in DOMAIN TypedManifest.platforms :
              LET readonly == RawField(RawPlatforms(body.doc)[p], "readonly", 7)
              IN  /\ ~readonly.some => TypedManifest.platforms[p].readonly = TRUE
                  /\ readonly = Some(Bool(FALSE)) =>
                        TypedManifest.platforms[p].readonly = FALSE
    /\ written.some =>
          LET entry == TypedManifest.platforms[written.v.platform]
              out == written.v.v
          IN  /\ out.t = "obj"
              /\ entry.readonly => <<"readonly">> \notin DOMAIN out.o
              /\ ~entry.readonly =>
                    /\ <<"readonly">> \in DOMAIN out.o
                    /\ out.o[<<"readonly">>] = Bool(FALSE)
    /\ reread.some =>
          /\ reread.v.ok
          /\ reread.v.v.readonly = TypedManifest.platforms[written.v.platform].readonly

\* C5 happens: an entry written with "readonly": false went round.
C5_Witness ==
    /\ pc = "reread"
    /\ RawField(RawPlatforms(body.doc)[written.v.platform], "readonly", 7)
            = Some(Bool(FALSE))
    /\ HasKey(written.v.v, "readonly")
    /\ reread.v.v.readonly = FALSE

\* C6: an entry written without `format` is read with the default format,
\* Plain, and the omission never makes an accepted document fail; "tar" is
\* read as Tar, serialized as "tar" and read back as Tar.
C6_Format ==
    /\ (Parsed /\ body.valid) =>
          \A p \in DOMAIN TypedManifest.platforms :
              LET format == RawField(RawPlatforms(body.doc)[p], "format", 4)
              IN  /\ ~format.some => TypedManifest.platforms[p].format = "Plain"
                  /\ format = Some(S("tar")) => TypedManifest.platforms[p].format = "Tar"
    /\ (Decided /\ AcceptedDocument(body.doc)) => result.v.ok
    /\ (written.some /\ TypedManifest.platforms[written.v.platform].format = "Tar") =>
          Field(written.v.v, "format") = S("tar")
    /\ (reread.some /\ TypedManifest.platforms[written.v.platform].format = "Tar") =>
          reread.v.ok /\ reread.v.v.format = "Tar"

\* C6 happens: a manifest with one entry without `format` and one with
\* "tar", the second of them serialized and read back.
C6_Witness ==
    /\ pc = "reread"
    /\ TypedManifest.platforms[written.v.platform].format = "Tar"
    /\ \E p \in DOMAIN TypedManifest.platforms :
          /\ ~HasKey(RawPlatforms(body.doc)[p], "format")
          /\ TypedManifest.platforms[p].format = "Plain"

\* C7: "blake3" is read as Blake3 and "sha256" as Sha256; with any other
\* value of `hash`, a string or not, parse_file fails with a schema error.
C7_ClosedEnumeration ==
    Decided =>
        \A p \in DOMAIN RawPlatforms(body.doc) :
            LET hash == RawField(RawPlatforms(body.doc)[p], "hash", 2)
            IN  /\ (Parsed /\ hash = Some(S("blake3"))) =>
                      TypedManifest.platforms[p].hash = "Blake3"
                /\ (Parsed /\ hash = Some(S("sha256"))) =>
                      TypedManifest.platforms[p].hash = "Sha256"
                /\ (hash.some /\ hash.v \notin {S("blake3"), S("sha256")}) =>
                      IsSchemaError(result.v)

\* C8: an array of providers of any shape is accepted, and the providers of
\* each typed entry are those of the same platform in the raw tree that is
\* returned with the manifest, one by one and in order.
C8_Providers ==
    /\ (Decided /\ AcceptedDocument(body.doc)) => result.v.ok
    /\ Parsed =>
          /\ RawTree = body.doc
          /\ \A p \in DOMAIN TypedManifest.platforms :
                LET providers == RawField(RawPlatforms(RawTree)[p], "providers", 6)
                    typed == TypedManifest.platforms[p].providers
                IN  /\ providers.some
                    /\ providers.v.t = "arr"
                    /\ Len(typed) = Len(providers.v.a)
                    /\ \A i \in 1..Len(typed) : typed[i] = providers.v.a[i]

\* C8 happens: providers that are a number, a string, null and an array.
C8_Witness ==
    /\ Parsed
    /\ \E p \in DOMAIN TypedManifest.platforms :
          TypedManifest.platforms[p].providers
              = <<PosInt(1), S("s"), Null, Arr(<<Bool(TRUE)>>)>>

RequiredKeys == {"size", "hash", "digest", "path", "providers"}

\* C9: a well-formed document fails with a schema error when `name` or
\* `platforms` is absent or of the wrong type, or an entry lacks a required
\* key; it does not fail for the absence of `format` or `readonly`; with an
\* empty `platforms` it is read to a manifest with no platform.
C9_RequiredFields ==
    Decided =>
        /\ ~(/\ HasKey(body.doc, "name") /\ Field(body.doc, "name").t = "str"
             /\ HasKey(body.doc, "platforms")
             /\ Field(body.doc, "platforms").t = "obj") =>
                IsSchemaError(result.v)
        /\ (\E p \in DOMAIN RawPlatforms(body.doc), k \in RequiredKeys :
                ~HasKey(RawPlatforms(body.doc)[p], k)) =>
                IsSchemaError(result.v)
        /\ AcceptedDocument(body.doc) => result.v.ok
        /\ body.doc = ManifestDocument(Obj(EmptyMap)) =>
                result.v.ok /\ DOMAIN TypedManifest.platforms = {}

\* The document with only the keys the schema names, at top level and in
\* each entry that is an object.
KnownEntry(e) ==
    IF e.t = "obj"
    THEN Obj([k \in DOMAIN e.o \cap ArtifactEntryKeys |-> e.o[k]])
    ELSE e

KnownDocument(doc) ==
    IF doc.t # "obj" THEN doc
    ELSE Obj([k \in DOMAIN doc.o \cap {<<"name">>, <<"platforms">>} |->
                IF k = <<"platforms">> /\ doc.o[k].t = "obj"
                THEN Obj([p \in DOMAIN doc.o[k].o |-> KnownEntry(doc.o[k].o[p])])
                ELSE doc.o[k]])

\* C10: a document with keys the schema does not name is read to the same
\* manifest as the document without them, when that one is read at all;
\* `writeable` leaves readonly at its default; the raw tree keeps the keys.
C10_UnknownKeys ==
    (Decided /\ KnownDocument(body.doc) # body.doc) =>
        LET without == parse_file(Marker \o LF \o Render(KnownDocument(body.doc), "compact"))
        IN  without.ok =>
                /\ result.v.ok
                /\ TypedManifest = without.v.config_file
                /\ RawTree = body.doc
                /\ \A p \in DOMAIN TypedManifest.platforms :
                      LET e == RawPlatforms(body.doc)[p]
                      IN  (HasKey(e, "writeable") /\ ~HasKey(e, "readonly")) =>
                              TypedManifest.platforms[p].readonly = TRUE

\* C10 happens: an entry with "writeable": true and no `readonly`.
C10_Witness ==
    /\ Parsed
    /\ \E p \in DOMAIN TypedManifest.platforms :
          LET e == RawPlatforms(body.doc)[p]
          IN  /\ HasKey(e, "writeable")
              /\ Field(e, "writeable") = Bool(TRUE)
              /\ ~HasKey(e, "readonly")
              /\ TypedManifest.platforms[p].readonly = TRUE

====
